---- MODULE Spec2Model ----
(***************************************************************************)
(* Foolprof: a registry of statically allocated profilers (src/profile.rs) *)
(* and the one-time frequency calibration (src/lib.rs).                    *)
(*                                                                         *)
(* Every thread runs the public operations: Profiler::profile (the         *)
(* profiled! macro), the drop of the Profiled guard it returned,           *)
(* visit_profiles, init and the drop of the OnExit init returned.  One     *)
(* action is one shared-memory access of the code (an atomic               *)
(* read-modify-write, a load or a store), so every interleaving of the     *)
(* threads is a behaviour of the model.                                    *)
(*                                                                         *)
(* Spec      threads fire profilers and visit the registry concurrently    *)
(* SpecFold  one thread folds a sequence of samples into one profiler      *)
(* SpecFull  threads fire profilers when one slot of the table is left     *)
(* SpecCal   threads call init concurrently                                *)
(*                                                                         *)
(* The counters and statistics are 64-bit words (the cross products of the *)
(* drop closure 128-bit); the values the specifications reach stay far     *)
(* below 2^64, so that no operation wraps.  A variant that follows a       *)
(* definition's comment and precedes the definition is that definition     *)
(* with a fault seeded, used to test that a property depends on it.        *)
(***************************************************************************)
EXTENDS Integers, Sequences, FiniteSets, TLC

(* ------------------------------ bounds --------------------------------- *)

\* threads of the concurrent specifications
NumThreads == 2
\* operations (profile with its drop, visit_profiles, init) the threads start
\* between them in Spec, SpecFull and SpecCal
MaxCalls == 3
\* guards the single thread of SpecFold creates and drops
MaxFolds == 3
\* get_timestamp returns a value of 0..FoldMaxTsc in SpecFold
FoldMaxTsc == 3
\* the byte counts passed to profile are 0..FoldMaxBytes in SpecFold
FoldMaxBytes == 2
\* get_timestamp returns a value of 0..MaxCalTicks in SpecCal
MaxCalTicks == 2
\* calls of profile the threads make between them in SpecLive
MaxLiveCalls == 2

(* ------------------------- program constants --------------------------- *)

MAX_NUM_PROFILERS == 4096
\* usleep(10_000): the calibration sleeps 10 000 microseconds
CalibrationSleepUs == 10000
\* the factor of the frequency formula, nanoseconds per second
NsPerSec == 1000000000
\* static mut FREQ: u64 = 1
DefaultFreq == 1

Threads == 1..NumThreads
\* the profilers: two call sites of profiled!, each with its static PROFILER
Probes == {1, 2}
\* the byte counts the threads of Spec pass to profile
Bytes == {0, 1}
\* the values get_timestamp returns in Spec and SpecFull
Timestamps == {0, 1}
FoldBytes == 0..FoldMaxBytes
\* the consumers (functions of type fn(Profile)) the threads pass to init
Consumers == {1, 2}
\* the consumer the threads pass to visit_profiles when they call it themselves
DirectConsumer == 1
FoldTimestamps == 0..FoldMaxTsc

(* ------------------------------- state --------------------------------- *)

VARIABLES
    COUNTER,      \* static COUNTER: AtomicUsize
    PROFILERS,    \* static mut PROFILERS: the non-null slots, slot index -> profiler
    init,         \* Profiler.init of every profiler
    lock,         \* Profiler.lock of every profiler
    profile,      \* Profiler.profile of every profiler (the Profile record)
    INIT,         \* static INIT: AtomicBool of lib.rs init
    FREQ,         \* static mut FREQ
    pc,           \* where every thread is in the operation it runs
    th,           \* the locals of the operation every thread runs
    calls,        \* operations the threads have started between them
    nwrites,      \* history: stores made to the slots of PROFILERS since the initial state
    regOrder,     \* history: the profilers in the order of their COUNTER.fetch_add
    kept,         \* history: drops of every profiler that found end > start
    folded,       \* history: the (cycles, bytes) samples folded into every profiler
    sums,         \* history: the exact sums of the folded cycles and bytes
    committed,    \* history: every profiler's record as Profile::new made it and
                  \* as every completed fold left it, in the order of the folds
    measurements, \* history: calls of init that started a calibration measurement
    freqWrites,   \* history: stores made to FREQ
    wallOk        \* whether clock_gettime(CLOCK_MONOTONIC_RAW) succeeds in this process

vars == <<COUNTER, PROFILERS, init, lock, profile, INIT, FREQ, pc, th, calls,
          nwrites, regOrder, kept, folded, sums, committed, measurements,
          freqWrites, wallOk>>

registry == <<COUNTER, PROFILERS, init, nwrites, regOrder>>
records == <<lock, profile, kept, folded, sums, committed>>
calibration == <<INIT, FREQ, measurements, freqWrites, wallOk>>

(* --------------------------- pure functions ---------------------------- *)

\* Profile::new(name): every statistic is zero
NewProfile(name) ==
    [name |-> name,
     cycles_min |-> 0, cycles_max |-> 0, cycles_avg |-> 0,
     bytes_min |-> 0, bytes_max |-> 0, bytes_avg |-> 0,
     samples |-> 0]

\* AtomicBool::fetch_and(v): the value stored; the value returned is the old one
\* (variant: the flag is left as it was)
fetch_and_keep(old, v) == old
fetch_and(old, v) == old /\ v

\* AtomicUsize::fetch_add(d): the value stored; the value returned is the old one
\* (variant: the addition is lost)
fetch_add_lost(old, d) == old
fetch_add(old, d) == old + d

\* compare_exchange_weak(expected, new): whether the exchange may succeed
\* (it may also fail spuriously, which leaves every variable as it is)
\* (variant: the exchange succeeds whatever the current value)
compare_exchange_always(current, expected) == TRUE
compare_exchange_weak(current, expected) == current = expected

\* the bounds check of the indexing expression PROFILERS[ix]
\* (variant: no check)
InBoundsUnchecked(ix) == TRUE
InBounds(ix) == ix < MAX_NUM_PROFILERS

\* the test of Profiled::drop that decides whether the sample is folded
\* (variant: end >= start)
ShouldFoldOrEqual(start, end) == end >= start
ShouldFold(start, end) == end > start

\* the minimum update of the drop closure; the products are taken in 128 bits
\* (variant: the comparison is turned around)
UpdateMinInverted(r, t, b) ==
    IF t * r.bytes_min >= r.cycles_min * b
    THEN [r EXCEPT !.cycles_min = t, !.bytes_min = b]
    ELSE r
UpdateMin(r, t, b) ==
    IF t * r.bytes_min <= r.cycles_min * b
    THEN [r EXCEPT !.cycles_min = t, !.bytes_min = b]
    ELSE r

\* the maximum update of the drop closure
\* (variant: the strict comparison)
UpdateMaxStrict(r, t, b) ==
    IF t * r.bytes_max > r.cycles_max * b
    THEN [r EXCEPT !.cycles_max = t, !.bytes_max = b]
    ELSE r
UpdateMax(r, t, b) ==
    IF t * r.bytes_max >= r.cycles_max * b
    THEN [r EXCEPT !.cycles_max = t, !.bytes_max = b]
    ELSE r

\* the average update of the drop closure, n being the sample count it read
\* (variants: the old average is not weighted by n; the quotient is rounded up)
UpdateAvgRoundUp(r, t, b, n) ==
    [r EXCEPT !.cycles_avg = (r.cycles_avg * n + t + n) \div (n + 1),
              !.bytes_avg = (r.bytes_avg * n + b + n) \div (n + 1)]
UpdateAvgUnweighted(r, t, b, n) ==
    [r EXCEPT !.cycles_avg = (r.cycles_avg + t) \div 2,
              !.bytes_avg = (r.bytes_avg + b) \div 2]
UpdateAvg(r, t, b, n) ==
    [r EXCEPT !.cycles_avg = (r.cycles_avg * n + t) \div (n + 1),
              !.bytes_avg = (r.bytes_avg * n + b) \div (n + 1)]

\* the k-th slot (k = 0, 1, ...) that PROFILERS.iter().take(n) yields
\* (variant: the slots are walked downwards)
TakeSlotReversed(k, n) == n - 1 - k
TakeSlot(k, n) == k

\* the locals of a thread that runs no operation.  arg is the consumer passed
\* to init and on_exit the field of the OnExit that init returned; f is the
\* consumer of the running visit, out the snapshots it has received, and
\* atStart the slots that were filled when the visit of an OnExit's drop
\* loaded COUNTER
NoLocals ==
    [profiler |-> 0, bytes |-> 0, start |-> 0, t |-> 0, ix |-> 0, n0 |-> 0,
     n |-> 0, k |-> 0, out |-> <<>>, won |-> FALSE,
     nsc_begin |-> 0, tsc_begin |-> 0,
     arg |-> 0, on_exit |-> 0, f |-> 0, atStart |-> {}]

(* ------------------------------- Init ---------------------------------- *)

\* The state of a process in which no thread has called anything yet.
Init ==
    /\ COUNTER = 0
    /\ PROFILERS = << >>
    /\ init = [p \in Probes |-> TRUE]
    /\ lock = [p \in Probes |-> FALSE]
    /\ profile = [p \in Probes |-> NewProfile(p)]
    /\ INIT = TRUE
    /\ FREQ = DefaultFreq
    /\ pc = [t \in Threads |-> "idle"]
    /\ th = [t \in Threads |-> NoLocals]
    /\ calls = 0
    /\ nwrites = << >>
    /\ regOrder = << >>
    /\ kept = [p \in Probes |-> 0]
    /\ folded = [p \in Probes |-> {}]
    /\ sums = [p \in Probes |-> [cycles |-> 0, bytes |-> 0]]
    /\ committed = [p \in Probes |-> <<NewProfile(p)>>]
    /\ measurements = 0
    /\ freqWrites = 0
    /\ wallOk = TRUE

(* ------------------------ Profiler::profile ---------------------------- *)

\* profile(bytes) on profiler p: self.init.fetch_and(false, Acquire)
ProfileLatch(t, P, B, limit) ==
    /\ pc[t] = "idle"
    /\ calls < limit
    /\ \E p \in P, b \in B :
         /\ th' = [th EXCEPT ![t] = [NoLocals EXCEPT !.profiler = p, !.bytes = b,
                                                     !.won = init[p]]]
         /\ init' = [init EXCEPT ![p] = fetch_and(init[p], FALSE)]
         /\ pc' = [pc EXCEPT ![t] = IF init[p] THEN "fetch_add" ELSE "stamp"]
    /\ calls' = calls + 1
    /\ UNCHANGED <<COUNTER, PROFILERS, nwrites, regOrder, records, calibration>>

\* let ix = COUNTER.fetch_add(1, Acquire)
FetchAdd(t) ==
    /\ pc[t] = "fetch_add"
    /\ th' = [th EXCEPT ![t].ix = COUNTER]
    /\ COUNTER' = fetch_add(COUNTER, 1)
    /\ regOrder' = Append(regOrder, th[t].profiler)
    /\ pc' = [pc EXCEPT ![t] = "store"]
    /\ UNCHANGED <<PROFILERS, init, nwrites, calls, records, calibration>>

\* PROFILERS[ix] = self: the index is checked against the array's length, and
\* an index out of bounds panics before anything is stored
\* (variant: the reference is not stored)
StoreNothing(t) ==
    /\ pc[t] = "store"
    /\ th' = [th EXCEPT ![t].ix = 0]
    /\ pc' = [pc EXCEPT ![t] = "stamp"]
    /\ UNCHANGED <<registry, calls, records, calibration>>
Store(t) ==
    /\ pc[t] = "store"
    /\ IF InBounds(th[t].ix)
       THEN /\ PROFILERS' = (th[t].ix :> th[t].profiler) @@ PROFILERS
            /\ th' = [th EXCEPT ![t].ix = 0]
            /\ nwrites' = (th[t].ix :>
                             (IF th[t].ix \in DOMAIN nwrites
                              THEN nwrites[th[t].ix] + 1 ELSE 1)) @@ nwrites
            /\ pc' = [pc EXCEPT ![t] = "stamp"]
       ELSE /\ pc' = [pc EXCEPT ![t] = "panic_bounds"]
            /\ UNCHANGED <<PROFILERS, nwrites, th>>
    /\ UNCHANGED <<COUNTER, init, regOrder, calls, records, calibration>>

\* Profiled { profiler: self, bytes, start: get_timestamp() }
Stamp(t, TS) ==
    /\ pc[t] = "stamp"
    /\ \E now \in TS : th' = [th EXCEPT ![t].start = now]
    /\ pc' = [pc EXCEPT ![t] = "guard"]
    /\ UNCHANGED <<registry, calls, records, calibration>>

(* ------------------------- Drop for Profiled --------------------------- *)

\* let end = get_timestamp(); if end > self.start { let t = end - self.start; ...
DropBegin(t, TS) ==
    /\ pc[t] = "guard"
    /\ \E end \in TS :
         /\ IF ShouldFold(th[t].start, end)
            THEN /\ th' = [th EXCEPT ![t].t = end - th[t].start, ![t].start = 0,
                                     ![t].won = FALSE]
                 /\ pc' = [pc EXCEPT ![t] = "spin"]
            ELSE /\ th' = [th EXCEPT ![t] = NoLocals]
                 /\ pc' = [pc EXCEPT ![t] = "idle"]
         /\ kept' = [kept EXCEPT ![th[t].profiler] =
                        @ + (IF end > th[t].start THEN 1 ELSE 0)]
    /\ UNCHANGED <<registry, calls, lock, profile, folded, sums, committed, calibration>>

\* with_lock: while self.lock.compare_exchange_weak(false, true, ..).is_err() {}
Acquire(t) ==
    /\ pc[t] = "spin"
    /\ compare_exchange_weak(lock[th[t].profiler], FALSE)
    /\ lock' = [lock EXCEPT ![th[t].profiler] = TRUE]
    /\ pc' = [pc EXCEPT ![t] = "fold_min"]
    /\ UNCHANGED <<registry, th, calls, profile, kept, folded, sums, committed,
                   calibration>>

\* the closure: if t * b0_min <= t0_min * b { *t0_min = t; *b0_min = b; }
FoldMin(t) ==
    /\ pc[t] = "fold_min"
    /\ profile' = [profile EXCEPT ![th[t].profiler] = UpdateMin(@, th[t].t, th[t].bytes)]
    /\ pc' = [pc EXCEPT ![t] = "fold_max"]
    /\ UNCHANGED <<registry, th, calls, lock, kept, folded, sums, committed,
                   calibration>>

\* the closure: if t * b0_max >= t0_max * b { *t0_max = t; *b0_max = b; }
FoldMax(t) ==
    /\ pc[t] = "fold_max"
    /\ profile' = [profile EXCEPT ![th[t].profiler] = UpdateMax(@, th[t].t, th[t].bytes)]
    /\ pc' = [pc EXCEPT ![t] = "fold_avg"]
    /\ UNCHANGED <<registry, th, calls, lock, kept, folded, sums, committed,
                   calibration>>

\* the closure: *t0_avg = (*t0_avg * *n + t) / (*n + 1), and the same for b0_avg;
\* n is the exclusive reference to samples, read here and kept for *n += 1
FoldAvg(t) ==
    /\ pc[t] = "fold_avg"
    /\ LET n == profile[th[t].profiler].samples IN
         /\ profile' = [profile EXCEPT ![th[t].profiler] =
                           UpdateAvg(@, th[t].t, th[t].bytes, n)]
         /\ th' = [th EXCEPT ![t].n0 = n]
    /\ pc' = [pc EXCEPT ![t] = "fold_count"]
    /\ UNCHANGED <<registry, calls, lock, kept, folded, sums, committed, calibration>>

\* the closure: *n += 1
FoldCount(t) ==
    /\ pc[t] = "fold_count"
    /\ profile' = [profile EXCEPT ![th[t].profiler].samples = th[t].n0 + 1]
    /\ committed' = [committed EXCEPT ![th[t].profiler] =
                        Append(@, profile'[th[t].profiler])]
    /\ th' = [th EXCEPT ![t].n0 = 0]
    /\ folded' = [folded EXCEPT ![th[t].profiler] = @ \cup {<<th[t].t, th[t].bytes>>}]
    /\ sums' = [sums EXCEPT ![th[t].profiler] =
                   [cycles |-> @.cycles + th[t].t, bytes |-> @.bytes + th[t].bytes]]
    /\ pc' = [pc EXCEPT ![t] = "release"]
    /\ UNCHANGED <<registry, calls, lock, kept, calibration>>

\* with_lock: self.lock.store(false, Release)
\* (variant: the closure's result is returned with the lock still held)
ReleaseKeepsLock(t) ==
    /\ pc[t] = "release"
    /\ th' = [th EXCEPT ![t] = NoLocals]
    /\ pc' = [pc EXCEPT ![t] = "idle"]
    /\ UNCHANGED <<registry, calls, records, calibration>>
Release(t) ==
    /\ pc[t] = "release"
    /\ lock' = [lock EXCEPT ![th[t].profiler] = FALSE]
    /\ th' = [th EXCEPT ![t] = NoLocals]
    /\ pc' = [pc EXCEPT ![t] = "idle"]
    /\ UNCHANGED <<registry, calls, profile, kept, folded, sums, committed,
                   calibration>>

(* --------------------------- visit_profiles ---------------------------- *)

\* visit_profiles(f): let n = COUNTER.load(Acquire); the iterator starts at the
\* first slot.  seen is what the visit remembers of this moment for the
\* properties: the filled slots, or nothing where no property asks for them.
VisitStart(t, f, seen) ==
    /\ th' = [th EXCEPT ![t] = [NoLocals EXCEPT !.n = COUNTER, !.f = f,
                                                !.arg = th[t].arg,
                                                !.atStart = seen]]
    /\ pc' = [pc EXCEPT ![t] = "visit_next"]

\* a direct call of visit_profiles(f)
VisitBegin(t, limit) ==
    /\ pc[t] = "idle"
    /\ calls < limit
    /\ VisitStart(t, DirectConsumer, {})
    /\ calls' = calls + 1
    /\ UNCHANGED <<registry, records, calibration>>

\* a call of visit_profiles(f) by a thread that may call it again and again
VisitAgain(t) ==
    /\ pc[t] = "idle"
    /\ VisitStart(t, DirectConsumer, {})
    /\ UNCHANGED <<registry, calls, records, calibration>>

\* PROFILERS.iter().take(n).flat_map(|p| p.as_ref()): the next slot is read; a
\* null slot yields nothing, and the loop ends after n slots or at the array's end.
\* The read is not synchronised with the store of a registration: a slot is one
\* aligned word, so the read yields null or the reference, as the steps fall.
\* (variant: the iteration ends at the first null slot)
VisitNextStopsAtNull(t) ==
    /\ pc[t] = "visit_next"
    /\ LET i == TakeSlot(th[t].k, th[t].n) IN
         IF th[t].k < th[t].n /\ th[t].k < MAX_NUM_PROFILERS /\ i \in DOMAIN PROFILERS
         THEN /\ th' = [th EXCEPT ![t].profiler = PROFILERS[i]]
              /\ pc' = [pc EXCEPT ![t] = "visit_spin"]
         ELSE /\ th' = [th EXCEPT ![t] = NoLocals]
              /\ pc' = [pc EXCEPT ![t] = "idle"]
    /\ UNCHANGED <<registry, calls, records, calibration>>
VisitNext(t) ==
    /\ pc[t] = "visit_next"
    /\ LET i == TakeSlot(th[t].k, th[t].n) IN
         IF th[t].k < th[t].n /\ th[t].k < MAX_NUM_PROFILERS
         THEN IF i \in DOMAIN PROFILERS
              THEN /\ th' = [th EXCEPT ![t].profiler = PROFILERS[i]]
                   /\ pc' = [pc EXCEPT ![t] = "visit_spin"]
              ELSE /\ th' = [th EXCEPT ![t].k = @ + 1]
                   /\ pc' = pc
         ELSE /\ th' = [th EXCEPT ![t] = NoLocals]
              /\ pc' = [pc EXCEPT ![t] = "idle"]
    /\ UNCHANGED <<registry, calls, records, calibration>>

\* with_lock of the visited profiler: the compare_exchange_weak loop
VisitAcquire(t) ==
    /\ pc[t] = "visit_spin"
    /\ compare_exchange_weak(lock[th[t].profiler], FALSE)
    /\ lock' = [lock EXCEPT ![th[t].profiler] = TRUE]
    /\ pc' = [pc EXCEPT ![t] = "visit_read"]
    /\ UNCHANGED <<registry, th, calls, profile, kept, folded, sums, committed,
                   calibration>>

\* f(profile.clone()): the consumer f receives a copy of the record
VisitRead(t) ==
    /\ pc[t] = "visit_read"
    /\ th' = [th EXCEPT ![t].out = Append(@, profile[th[t].profiler])]
    /\ pc' = [pc EXCEPT ![t] = "visit_release"]
    /\ UNCHANGED <<registry, calls, records, calibration>>

\* with_lock: self.lock.store(false, Release), and the loop goes on
VisitRelease(t) ==
    /\ pc[t] = "visit_release"
    /\ lock' = [lock EXCEPT ![th[t].profiler] = FALSE]
    /\ th' = [th EXCEPT ![t].k = @ + 1, ![t].profiler = 0]
    /\ pc' = [pc EXCEPT ![t] = "visit_next"]
    /\ UNCHANGED <<registry, calls, profile, kept, folded, sums, committed,
                   calibration>>

(* ------------------------ init and Drop for OnExit --------------------- *)

\* get_nsc_timestamp(): tv_sec * 1_000_000_000 + tv_nsec, or 0 when
\* clock_gettime fails; at is the raw monotonic clock's reading
get_nsc_timestamp(at) == IF wallOk THEN at ELSE 0

\* (tsc_end - tsc_begin) * 1000000000 / (nsc_end - nsc_begin), the divisor not
\* being 0: the same quotient taken by parts, which keeps the intermediate
\* values small
Frequency(cycles, ns) ==
    cycles * (NsPerSec \div ns) + (cycles * (NsPerSec % ns)) \div ns

\* the quotient of a product that wrapped around 64 bits: not computed here
WrappedFreq == -1

\* init(on_exit): INIT.fetch_and(false, Acquire); a call that finds the latch
\* taken returns OnExit { on_exit } at once
InitLatch(t, limit) ==
    /\ pc[t] = "idle"
    /\ calls < limit
    /\ \E c \in Consumers :
         th' = [th EXCEPT ![t] = [NoLocals EXCEPT !.won = INIT, !.arg = c,
                                   !.on_exit = IF INIT THEN 0 ELSE c]]
    /\ INIT' = fetch_and(INIT, FALSE)
    /\ pc' = [pc EXCEPT ![t] = IF INIT THEN "calibrate" ELSE "onexit"]
    /\ calls' = calls + 1
    /\ UNCHANGED <<registry, records, FREQ, measurements, freqWrites, wallOk>>

\* let nsc_begin = get_nsc_timestamp(); let tsc_begin = get_timestamp();
\* libc::usleep(10_000)
CalibBegin(t, TS) ==
    /\ pc[t] = "calibrate"
    /\ \E wall \in {1, 2}, tsc \in TS :
         th' = [th EXCEPT ![t].nsc_begin = get_nsc_timestamp(wall),
                          ![t].tsc_begin = tsc]
    /\ measurements' = measurements + 1
    /\ pc' = [pc EXCEPT ![t] = "usleep"]
    /\ UNCHANGED <<registry, calls, records, INIT, FREQ, freqWrites, wallOk>>

\* let nsc_end = ..; let tsc_end = ..; FREQ = (tsc_end - tsc_begin) * 1000000000
\* / (nsc_end - nsc_begin).  The raw monotonic clock has advanced by the sleep.
\* tsc_end < tsc_begin overflows the subtraction, the first operand evaluated:
\* a panic in a build with overflow checks, a wrapped value in one without.
\* A divisor of 0 panics in every build.  After the store init returns
\* OnExit { on_exit }.
CalibEnd(t, TS) ==
    /\ pc[t] = "usleep"
    /\ \E tsc_end \in TS, checked \in BOOLEAN :
         LET nsc_end == get_nsc_timestamp(th[t].nsc_begin + CalibrationSleepUs * 1000)
             ns == nsc_end - th[t].nsc_begin
         IN  IF tsc_end < th[t].tsc_begin /\ checked
             THEN /\ pc' = [pc EXCEPT ![t] = "panic_overflow"]
                  /\ UNCHANGED <<FREQ, freqWrites, th>>
             ELSE IF ns = 0
             THEN /\ pc' = [pc EXCEPT ![t] = "panic_div_zero"]
                  /\ UNCHANGED <<FREQ, freqWrites, th>>
             ELSE /\ FREQ' = IF tsc_end < th[t].tsc_begin
                             THEN WrappedFreq
                             ELSE Frequency(tsc_end - th[t].tsc_begin, ns)
                  /\ freqWrites' = freqWrites + 1
                  /\ th' = [th EXCEPT ![t].on_exit = th[t].arg]
                  /\ pc' = [pc EXCEPT ![t] = "onexit"]
    /\ UNCHANGED <<registry, calls, records, INIT, measurements, wallOk>>

\* Drop for OnExit: profile::visit_profiles(self.on_exit)
\* (variant: the OnExit is dropped without a visit)
DropOnExitSilent(t) ==
    /\ pc[t] = "onexit"
    /\ th' = [th EXCEPT ![t] = NoLocals]
    /\ pc' = [pc EXCEPT ![t] = "idle"]
    /\ UNCHANGED <<registry, calls, records, calibration>>
DropOnExit(t) ==
    /\ pc[t] = "onexit"
    /\ VisitStart(t, th[t].on_exit, DOMAIN PROFILERS)
    /\ UNCHANGED <<registry, calls, records, calibration>>

(* --------------------------- specifications ---------------------------- *)

\* the steps of a thread that fires profilers of P with byte counts of B
Worker(t, P, B, TS, limit) ==
    \/ ProfileLatch(t, P, B, limit)
    \/ FetchAdd(t)
    \/ Store(t)
    \/ Stamp(t, TS)
    \/ DropBegin(t, TS)
    \/ Acquire(t)
    \/ FoldMin(t)
    \/ FoldMax(t)
    \/ FoldAvg(t)
    \/ FoldCount(t)
    \/ Release(t)

\* the steps of a thread that calls visit_profiles
Visitor(t, limit) ==
    \/ VisitBegin(t, limit)
    \/ VisitNext(t)
    \/ VisitAcquire(t)
    \/ VisitRead(t)
    \/ VisitRelease(t)

\* the steps of a thread that calls init and drops the OnExit it returns
Calibrator(t, TS, limit) ==
    \/ InitLatch(t, limit)
    \/ CalibBegin(t, TS)
    \/ CalibEnd(t, TS)
    \/ DropOnExit(t)
    \/ VisitNext(t)

\* Threads fire profilers and visit the registry concurrently.
Next ==
    \E t \in Threads :
        \/ Worker(t, Probes, Bytes, Timestamps, MaxCalls)
        \/ Visitor(t, MaxCalls)

Spec == Init /\ [][Next]_vars

\* One thread creates and drops guards of one profiler, one after the other.
NextFold == Worker(1, {1}, FoldBytes, FoldTimestamps, MaxFolds)

SpecFold == Init /\ [][NextFold]_vars

\* the profilers that other call sites registered before the threads start
EarlierProbe(i) == Cardinality(Probes) + 1 + i

\* A process all of whose slots but the last are taken.
InitFull ==
    /\ COUNTER = MAX_NUM_PROFILERS - 1
    /\ PROFILERS = [i \in 0..(MAX_NUM_PROFILERS - 2) |-> EarlierProbe(i)]
    /\ nwrites = << >>
    /\ init = [p \in Probes |-> TRUE]
    /\ lock = [p \in Probes |-> FALSE]
    /\ profile = [p \in Probes |-> NewProfile(p)]
    /\ INIT = TRUE
    /\ FREQ = DefaultFreq
    /\ pc = [t \in Threads |-> "idle"]
    /\ th = [t \in Threads |-> NoLocals]
    /\ calls = 0
    /\ regOrder = << >>
    /\ kept = [p \in Probes |-> 0]
    /\ folded = [p \in Probes |-> {}]
    /\ sums = [p \in Probes |-> [cycles |-> 0, bytes |-> 0]]
    /\ committed = [p \in Probes |-> <<NewProfile(p)>>]
    /\ measurements = 0
    /\ freqWrites = 0
    /\ wallOk = TRUE

NextFull == \E t \in Threads : Worker(t, Probes, {0}, Timestamps, MaxCalls)

SpecFull == InitFull /\ [][NextFull]_vars

\* The raw monotonic clock may be one this system does not support.
InitCal ==
    /\ wallOk \in BOOLEAN
    /\ COUNTER = 0
    /\ PROFILERS = << >>
    /\ nwrites = << >>
    /\ init = [p \in Probes |-> TRUE]
    /\ lock = [p \in Probes |-> FALSE]
    /\ profile = [p \in Probes |-> NewProfile(p)]
    /\ INIT = TRUE
    /\ FREQ = DefaultFreq
    /\ pc = [t \in Threads |-> "idle"]
    /\ th = [t \in Threads |-> NoLocals]
    /\ calls = 0
    /\ regOrder = << >>
    /\ kept = [p \in Probes |-> 0]
    /\ folded = [p \in Probes |-> {}]
    /\ sums = [p \in Probes |-> [cycles |-> 0, bytes |-> 0]]
    /\ committed = [p \in Probes |-> <<NewProfile(p)>>]
    /\ measurements = 0
    /\ freqWrites = 0

NextCal == \E t \in Threads : Calibrator(t, 0..MaxCalTicks, MaxCalls)

SpecCal == InitCal /\ [][NextCal]_vars

\* the steps of thread t that carry on the operation it has started; a scope
\* starts at timestamp 0 and ends at 0 or 1
Continue(t) ==
    \/ FetchAdd(t)
    \/ Store(t)
    \/ Stamp(t, {0})
    \/ DropBegin(t, {0, 1})
    \/ Acquire(t)
    \/ FoldMin(t)
    \/ FoldMax(t)
    \/ FoldAvg(t)
    \/ FoldCount(t)
    \/ Release(t)
    \/ VisitNext(t)
    \/ VisitAcquire(t)
    \/ VisitRead(t)
    \/ VisitRelease(t)

\* Threads fire one profiler a bounded number of times and visit the registry
\* as often as they like.
NextLive ==
    \E t \in Threads :
        \/ ProfileLatch(t, {1}, {1}, MaxLiveCalls)
        \/ VisitAgain(t)
        \/ Continue(t)

\* The scheduler lets every thread run: a thread that can take the next step of
\* its operation takes it.  Whether a thread starts another operation is up to
\* the program.
SpecLive == Init /\ [][NextLive]_vars /\ \A t \in Threads : WF_vars(Continue(t))

\* the steps of a thread that calls init, holds the OnExit and drops it
Exiter(t, TS, limit) ==
    \/ InitLatch(t, limit)
    \/ CalibBegin(t, TS)
    \/ CalibEnd(t, TS)
    \/ DropOnExit(t)
    \/ VisitNext(t)
    \/ VisitAcquire(t)
    \/ VisitRead(t)
    \/ VisitRelease(t)

\* the steps of a thread that fires profilers whose guards measure no time
\* (end = start), so that their drop folds nothing
Firer(t, P, limit) ==
    \/ ProfileLatch(t, P, {0}, limit)
    \/ FetchAdd(t)
    \/ Store(t)
    \/ Stamp(t, {0})
    \/ DropBegin(t, {0})

\* Threads call init and drop the OnExit it returned while threads fire profilers.
NextExit ==
    \E t \in Threads :
        \/ Firer(t, Probes, MaxCalls)
        \/ Exiter(t, {0}, MaxCalls)

SpecExit == Init /\ [][NextExit]_vars

\* where a thread inside visit_profiles can be
VisitPcs == {"visit_next", "visit_spin", "visit_read", "visit_release"}

\* every call of profile has returned and every guard is dropped
Quiescent == \A t \in Threads : pc[t] \in {"idle"} \cup VisitPcs

\* no call of visit_profiles is running
NoVisit == \A t \in Threads : pc[t] \notin VisitPcs

\* Threads fire profilers and drop the guards; when all of them are done, a
\* thread calls visit_profiles, and no profiler is fired while it runs.
NextQuiet ==
    \E t \in Threads :
        \/ NoVisit /\ Worker(t, Probes, Bytes, Timestamps, MaxCalls)
        \/ Quiescent /\ VisitBegin(t, MaxCalls)
        \/ VisitNext(t)
        \/ VisitAcquire(t)
        \/ VisitRead(t)
        \/ VisitRelease(t)

SpecQuiet == Init /\ [][NextQuiet]_vars

(* ------------------------------ properties ----------------------------- *)

\* the slots of PROFILERS that hold profiler p
SlotsOf(p) == {i \in DOMAIN PROFILERS : PROFILERS[i] = p}

\* the threads inside the registration body of profile for p
Registering(p) ==
    {t \in Threads : pc[t] \in {"fetch_add", "store"} /\ th[t].profiler = p}

\* the threads whose drop of a guard of p found end > start and has not yet
\* finished its fold
Folding(p) ==
    {t \in Threads :
        /\ pc[t] \in {"spin", "fold_min", "fold_max", "fold_avg", "fold_count"}
        /\ th[t].profiler = p}

\* how often p occurs in the sequence s
Occurrences(s, p) == Cardinality({i \in 1..Len(s) : s[i] = p})

\* the place of p in the order of the fetch_adds
RegistrationRank(p) == CHOOSE i \in 1..Len(regOrder) : regOrder[i] = p

\* C1: however the first calls of profile on one profiler interleave, its
\* registration body runs once: the profiler took at most one index from
\* COUNTER and stands in at most one slot; COUNTER has grown by one for every
\* profiler whose latch is taken and whose fetch_add is done; and once no call
\* is inside the registration body the profiler stands in exactly one slot.
C1_RegisteredOnce ==
    /\ \A p \in Probes :
         /\ Occurrences(regOrder, p) <= 1
         /\ Cardinality(SlotsOf(p)) <= 1
         /\ (~init[p] /\ Registering(p) = {})
               => (Occurrences(regOrder, p) = 1 /\ Cardinality(SlotsOf(p)) = 1)
    /\ COUNTER = Cardinality({p \in Probes : ~init[p]})
                   - Cardinality({t \in Threads : pc[t] = "fetch_add"})

\* Two threads made their first call on the same profiler, one won the latch,
\* both hold their guard, and the registry holds that profiler alone.
C1_Witness ==
    \E p \in Probes :
        /\ \A t \in Threads : pc[t] = "guard" /\ th[t].profiler = p
        /\ calls = NumThreads
        /\ \E t \in Threads : th[t].won
        /\ \E t \in Threads : ~th[t].won
        /\ COUNTER = 1
        /\ PROFILERS = (0 :> p)

\* the pair <<c, b>> is one of the samples S and no sample has a lower ratio
IsLowestRatio(c, b, S) ==
    /\ <<c, b>> \in S
    /\ \A s \in S : c * s[2] <= s[1] * b

\* the pair <<c, b>> is one of the samples S and no sample has a higher ratio
IsHighestRatio(c, b, S) ==
    /\ <<c, b>> \in S
    /\ \A s \in S : c * s[2] >= s[1] * b

\* C2: however the drops of the guards of one profiler interleave, no sample is
\* lost: once every drop that found end > start has finished its fold, samples
\* is the number of those drops, the min pair is a folded sample of the lowest
\* cycles-per-byte ratio and the max pair one of the highest.
C2_NoSampleLost ==
    \A p \in Probes :
        Folding(p) = {} =>
            /\ profile[p].samples = kept[p]
            /\ kept[p] > 0 =>
                 /\ IsLowestRatio(profile[p].cycles_min, profile[p].bytes_min, folded[p])
                 /\ IsHighestRatio(profile[p].cycles_max, profile[p].bytes_max, folded[p])

\* Each of the two threads dropped one guard of the same profiler, with
\* different byte counts, and both samples are in the record.
C2_Witness ==
    \E p \in Probes :
        /\ \A t \in Threads : pc[t] = "idle"
        /\ calls = NumThreads
        /\ kept[p] = NumThreads
        /\ profile[p].samples = NumThreads
        /\ Cardinality(folded[p]) > 1
        /\ profile[p].bytes_min # profile[p].bytes_max

\* C3: with the table full, the first fire of one more profiler ends in a panic
\* at the store of the registration: no index outside the table is ever written,
\* no store goes to a slot that was filled before and none to a slot twice, and
\* a thread that took an index outside the table gets no further than the store.
C3_CapacityExhaustionIsFatal ==
    /\ DOMAIN PROFILERS \subseteq 0..(MAX_NUM_PROFILERS - 1)
    /\ \A i \in DOMAIN nwrites : nwrites[i] <= 1 /\ i = MAX_NUM_PROFILERS - 1
    /\ \A t \in Threads :
         th[t].ix >= MAX_NUM_PROFILERS => pc[t] \in {"store", "panic_bounds"}

\* The last slot was taken, COUNTER equalled the capacity, and the thread that
\* then fired one more profiler has panicked at the store.
C3_Witness ==
    \E t \in Threads :
        /\ pc[t] = "panic_bounds"
        /\ th[t].ix = MAX_NUM_PROFILERS
        /\ COUNTER = MAX_NUM_PROFILERS + 1
        /\ (MAX_NUM_PROFILERS - 1) \in DOMAIN PROFILERS

\* C4: after any sequence of folds, every folded sample (t, b), those with
\* b = 0 included, satisfies cycles_min * b <= t * bytes_min and
\* cycles_max * b >= t * bytes_max.
C4_ExtremesBoundEverySample ==
    \A p \in Probes :
        \A s \in folded[p] :
            /\ profile[p].cycles_min * s[2] <= s[1] * profile[p].bytes_min
            /\ profile[p].cycles_max * s[2] >= s[1] * profile[p].bytes_max

\* Three samples of three different ratios, one of them with no bytes, are
\* folded, and the min pair is not the sample folded first.
C4_Witness ==
    /\ Cardinality(folded[1]) = 3
    /\ \E s \in folded[1] : s[2] = 0
    /\ profile[1].bytes_max = 0
    /\ profile[1].cycles_min * profile[1].bytes_max
         < profile[1].cycles_max * profile[1].bytes_min
    /\ pc[1] = "idle"

\* C5 as stated: after N >= 1 folds cycles_avg is floor(sum of the folded
\* cycles / N) and bytes_avg is floor(sum of the folded bytes / N).
C5_AvgIsTruncatedMean ==
    \A p \in Probes :
        (Folding(p) = {} /\ profile[p].samples >= 1) =>
            /\ profile[p].cycles_avg = sums[p].cycles \div profile[p].samples
            /\ profile[p].bytes_avg = sums[p].bytes \div profile[p].samples

\* avg is the truncated mean of sum over n samples up to the drift of the
\* incremental update: n * avg <= sum <= n * avg + n * (n - 1) / 2
WithinDrift(avg, sum, n) ==
    /\ n * avg <= sum
    /\ sum <= n * avg + (n * (n - 1)) \div 2

\* C5 amended: after N >= 1 folds cycles_avg and bytes_avg never exceed the
\* truncated means, N times the average falls short of the sum by at most
\* N * (N - 1) / 2, and for N <= 2 they are the truncated means.
C5_AvgWithinDriftOfMean ==
    \A p \in Probes :
        (Folding(p) = {} /\ profile[p].samples >= 1) =>
            LET n == profile[p].samples IN
            /\ WithinDrift(profile[p].cycles_avg, sums[p].cycles, n)
            /\ WithinDrift(profile[p].bytes_avg, sums[p].bytes, n)
            /\ profile[p].cycles_avg <= sums[p].cycles \div n
            /\ profile[p].bytes_avg <= sums[p].bytes \div n
            /\ n <= 2 =>
                 /\ profile[p].cycles_avg = sums[p].cycles \div n
                 /\ profile[p].bytes_avg = sums[p].bytes \div n

\* Three samples are folded and the running average of the cycles is below
\* their truncated mean.
C5_Witness ==
    /\ pc[1] = "idle"
    /\ profile[1].samples = 3
    /\ profile[1].cycles_avg < sums[1].cycles \div 3
    /\ profile[1].cycles_avg > 0

\* C6: the snapshots one call of visit_profiles has handed to the consumer are
\* in the order in which their profilers took their index from COUNTER.
C6_VisitInRegistrationOrder ==
    \A t \in Threads :
        \A i, j \in 1..Len(th[t].out) :
            i < j => RegistrationRank(th[t].out[i].name)
                       < RegistrationRank(th[t].out[j].name)

\* One call of visit_profiles has delivered the snapshots of two profilers, the
\* one that registered first not being the one of the lowest identity.
C6_Witness ==
    \E t \in Threads :
        /\ Len(th[t].out) = 2
        /\ th[t].out[1].name > th[t].out[2].name
        /\ regOrder = <<th[t].out[1].name, th[t].out[2].name>>

\* C7: however the first fires of distinct profilers interleave, no slot is
\* written twice, two threads about to store hold different indices, no
\* profiler stands in two slots, and once no thread is inside its registration
\* body a fired profiler stands in exactly one slot, the one of the index it took.
C7_UniqueSlots ==
    /\ \A i \in DOMAIN nwrites : nwrites[i] <= 1
    /\ \A t1, t2 \in Threads :
         (t1 # t2 /\ pc[t1] = "store" /\ pc[t2] = "store") => th[t1].ix # th[t2].ix
    /\ \A p \in Probes :
         /\ Cardinality(SlotsOf(p)) <= 1
         /\ (~init[p] /\ Registering(p) = {}) =>
                SlotsOf(p) = {RegistrationRank(p) - 1}

\* Two threads each won the latch of a different profiler in their first call,
\* both hold their guard, and the two profilers fill the first two slots.
C7_Witness ==
    /\ \A t \in Threads : pc[t] = "guard" /\ th[t].won
    /\ calls = NumThreads
    /\ \A p \in Probes : ~init[p]
    /\ DOMAIN PROFILERS = 0..(Cardinality(Probes) - 1)
    /\ COUNTER = Cardinality(Probes)

\* C8: whatever the number of calls of init, at most one of them measures and
\* FREQ is stored at most once; once the latch is taken and its winner has read
\* the clocks, exactly one call has measured; and a call that lost the latch is
\* never in the measurement: it holds its OnExit at once.
C8_OneCalibration ==
    /\ measurements <= 1
    /\ freqWrites <= 1
    /\ (~INIT /\ \A t \in Threads : pc[t] # "calibrate") => measurements = 1
    /\ \A t \in Threads :
         pc[t] \in {"calibrate", "usleep", "panic_overflow", "panic_div_zero"}
            => th[t].won
    /\ Cardinality({t \in Threads : th[t].won}) <= 1

\* A call of init that lost the latch holds its OnExit while the winner is
\* still asleep in its measurement and FREQ is not yet stored.
C8_Witness ==
    \E t1, t2 \in Threads :
        /\ pc[t1] = "usleep"
        /\ pc[t2] = "onexit"
        /\ ~th[t2].won
        /\ freqWrites = 0

\* C9 as stated: when the wall clock's delta is 0 (both reads of
\* get_nsc_timestamp fail and return 0) init does not divide by zero: it
\* returns, and FREQ keeps its default.
C9_ZeroWallDeltaIsGuarded ==
    ~wallOk =>
        /\ \A t \in Threads : pc[t] # "panic_div_zero"
        /\ FREQ = DefaultFreq

\* C10: a guard folds at most once, on its drop: the drops of a profiler's
\* guards that found end > start are each either still in their fold or counted
\* once in samples, so that samples is their number when none is in its fold;
\* and samples never decreases.
C10_SamplesCountKeptDrops ==
    /\ [](\A p \in Probes :
            profile[p].samples + Cardinality(Folding(p)) = kept[p])
    /\ [][\A p \in Probes : profile'[p].samples >= profile[p].samples]_vars

\* Three guards of one profiler were created and dropped, one of them with
\* end <= start, and samples is 2.
C10_Witness ==
    /\ pc[1] = "idle"
    /\ calls = 3
    /\ kept[1] = 2
    /\ profile[1].samples = 2

\* C11: every snapshot visit_profiles hands to the consumer is the record as
\* some whole number of completed folds left it: all its fields are those of
\* the record after the first k folds of the lock's order, k being the
\* snapshot's own samples, and never those of a record in the middle of a fold.
C11_SnapshotsAreCommitted ==
    \A t \in Threads :
        \A i \in 1..Len(th[t].out) :
            LET s == th[t].out[i] IN
            /\ (s.samples + 1) \in DOMAIN committed[s.name]
            /\ s = committed[s.name][s.samples + 1]

\* A visitor holds the lock of a profiler after copying its record, which one
\* fold has completed, while another thread spins to fold a second sample.
C11_Witness ==
    \E t1, t2 \in Threads :
        /\ pc[t1] = "visit_release"
        /\ Len(th[t1].out) = 1
        /\ th[t1].out[1].samples = 1
        /\ th[t1].out[1].cycles_min > 0
        /\ pc[t2] = "spin"
        /\ th[t2].profiler = th[t1].profiler

\* every operation a thread has started comes to its end, and every lock that
\* is held is released
EveryCallCompletes ==
    /\ \A t \in Threads : (pc[t] # "idle") ~> (pc[t] = "idle")
    /\ \A p \in Probes : lock[p] ~> ~lock[p]

\* C12 as stated: under fair scheduling every call of profile, every drop of a
\* guard and every call of visit_profiles completes, and no thread spins forever.
C12_EveryCallCompletes == EveryCallCompletes

\* a thread that spins on a lock which is free again and again wins the
\* compare-exchange in the end
LockIsFair ==
    \A t \in Threads : SF_vars(Acquire(t)) /\ SF_vars(VisitAcquire(t))

\* C12 amended: every lock that is taken is released, a call of profile
\* completes whatever the other threads do, and every drop and every visit
\* completes provided the lock is fair to the threads that spin on it.
C12_CompletesIfLockIsFair ==
    /\ \A p \in Probes : lock[p] ~> ~lock[p]
    /\ \A t \in Threads : (pc[t] \in {"fetch_add", "store", "stamp"}) ~> (pc[t] = "guard")
    /\ LockIsFair => EveryCallCompletes

\* A thread in the middle of a fold holds the lock of a profiler while a visitor
\* spins on it.
C12_Witness ==
    \E t1, t2 \in Threads :
        /\ pc[t1] = "fold_avg"
        /\ pc[t2] = "visit_spin"
        /\ th[t2].profiler = th[t1].profiler
        /\ lock[th[t1].profiler]

\* the visit of thread t has read all the slots below the count it loaded
VisitDone(t) == pc[t] = "visit_next" /\ th[t].k >= th[t].n

\* the names of the snapshots the visit of thread t has handed to its consumer
Visited(t) == [i \in 1..Len(th[t].out) |-> th[t].out[i].name]

\* the consumer of the visit of t received one snapshot of every profiler that
\* stood in a slot when the visit began, none twice, none of a profiler that
\* took no index below the count, and all in the order of registration
OncePerRegistered(t) ==
    /\ \A i \in th[t].atStart : Occurrences(Visited(t), PROFILERS[i]) = 1
    /\ \A j \in 1..Len(Visited(t)) :
         /\ Occurrences(Visited(t), Visited(t)[j]) = 1
         /\ \E i \in DOMAIN PROFILERS : i < th[t].n /\ PROFILERS[i] = Visited(t)[j]
    /\ \A i, j \in 1..Len(Visited(t)) :
         i < j => RegistrationRank(Visited(t)[i]) < RegistrationRank(Visited(t)[j])

\* C13: the drop of an OnExit starts one call of visit_profiles, with the
\* consumer that was passed to the call of init that returned the OnExit, and
\* no visit starts otherwise: none runs inside init or while the OnExit is
\* held.  That visit hands the consumer one snapshot of every profiler that
\* was registered when it began, in the order of registration.
C13_DropVisitsOnce ==
    /\ [](\A t \in Threads :
            /\ pc[t] \in {"calibrate", "usleep", "onexit",
                          "panic_overflow", "panic_div_zero"}
                  => (th[t].out = <<>> /\ th[t].f = 0)
            /\ pc[t] = "onexit" => th[t].on_exit = th[t].arg
            /\ pc[t] \in VisitPcs => (th[t].f = th[t].arg /\ th[t].f \in Consumers)
            /\ VisitDone(t) => OncePerRegistered(t))
    /\ [][\A t \in Threads :
            /\ (pc[t] = "onexit" /\ pc'[t] # "onexit")
                  => /\ pc'[t] = "visit_next"
                     /\ th'[t].f = th[t].on_exit
                     /\ th'[t].n = COUNTER
                     /\ th'[t].k = 0
                     /\ th'[t].out = <<>>
            /\ (pc'[t] \in VisitPcs /\ pc[t] \notin VisitPcs) => pc[t] = "onexit"]_vars

\* A thread passed the second consumer to init and dropped the OnExit after two
\* profilers had registered, the second one first; the visit is at its end and
\* that consumer has received their two snapshots in that order.
C13_Witness ==
    \E t \in Threads :
        /\ VisitDone(t)
        /\ th[t].arg = 2
        /\ th[t].f = 2
        /\ regOrder = <<2, 1>>
        /\ Visited(t) = <<2, 1>>
        /\ th[t].atStart = {0, 1}

\* the threads inside the critical section of with_lock of profiler p: past
\* the exchange that took the lock and not past the store that frees it
InCritical(p) ==
    {t \in Threads :
        /\ pc[t] \in {"fold_min", "fold_max", "fold_avg", "fold_count", "release",
                      "visit_read", "visit_release"}
        /\ th[t].profiler = p}

\* C14: at most one thread, folding or visiting, is inside the critical section
\* of a profiler, and the lock is held exactly then; the record of a profiler
\* is written only by a step of the thread inside its critical section, and
\* it is copied for a consumer only by such a step.
C14_MutualExclusion ==
    /\ [](\A p \in Probes :
            /\ Cardinality(InCritical(p)) <= 1
            /\ lock[p] <=> InCritical(p) # {})
    /\ [][\A p \in Probes :
            /\ profile'[p] # profile[p] =>
                 \E t \in InCritical(p) : lock[p] /\ pc'[t] # pc[t]
            /\ \A t \in Threads :
                 (Len(th'[t].out) > Len(th[t].out) /\ th[t].profiler = p) =>
                     (t \in InCritical(p) /\ lock[p]
                        /\ th'[t].out = Append(th[t].out, profile[p]))]_vars

\* One thread is inside the fold of a profiler that a fold has written before,
\* and the other thread spins on the lock to fold into the same profiler.
C14_Witness ==
    \E t1, t2 \in Threads :
        /\ pc[t1] = "fold_count"
        /\ pc[t2] = "spin"
        /\ th[t1].profiler = th[t2].profiler
        /\ profile[th[t1].profiler].samples = 1

\* C15 as stated: COUNTER is the number of occupied slots, every slot below
\* COUNTER holds a reference, and a visit that loaded COUNTER = n hands its
\* consumer exactly n snapshots.
C15_CounterIsOccupiedSlots ==
    /\ COUNTER = Cardinality(DOMAIN PROFILERS)
    /\ \A i \in 0..(COUNTER - 1) : i \in DOMAIN PROFILERS
    /\ \A t \in Threads : VisitDone(t) => Len(th[t].out) = th[t].n

\* the threads that have taken an index from COUNTER and stored no reference
\* for it: those about to store, and those that panicked at the store
InFlight == {t \in Threads : pc[t] \in {"store", "panic_bounds"}}

\* C15 amended: COUNTER is the number of occupied slots plus the number of
\* registrations that have taken their index and not stored their reference;
\* every occupied slot lies below COUNTER; a visit that loaded COUNTER = n
\* hands its consumer at most n snapshots, and exactly n when every slot
\* below n was filled at that moment.
C15_CounterCoversOccupiedSlots ==
    /\ COUNTER = Cardinality(DOMAIN PROFILERS) + Cardinality(InFlight)
    /\ \A i \in DOMAIN PROFILERS : i < COUNTER
    /\ \A t \in Threads :
         /\ pc[t] \in VisitPcs => Len(th[t].out) <= th[t].n
         /\ VisitDone(t) =>
              /\ Len(th[t].out) <= th[t].n
              /\ th[t].atStart = 0..(th[t].n - 1) => Len(th[t].out) = th[t].n

\* A visit loaded COUNTER = 2 while the second registration had taken its
\* index and not yet stored its reference; it is at its end and its consumer
\* has received one snapshot.
C15_Witness ==
    \E t1, t2 \in Threads :
        /\ VisitDone(t1)
        /\ th[t1].n = 2
        /\ Len(th[t1].out) = 1
        /\ pc[t2] = "store"
        /\ COUNTER = 2
        /\ DOMAIN PROFILERS = {0}

\* C16: the drop of a guard that finds end <= start (the drop that is not
\* counted in kept) ends in that one step: it takes no lock, it leaves the
\* record and the history of its folds as they are, and it ends in no panic.
C16_DiscardChangesNothing ==
    [][\A t \in Threads :
         (pc[t] = "guard" /\ pc'[t] # "guard" /\ kept' = kept) =>
             /\ pc'[t] = "idle"
             /\ lock' = lock
             /\ profile' = profile
             /\ committed' = committed
             /\ folded' = folded]_vars

\* Two guards were created and dropped, one of them with end <= start, and the
\* record is as the one fold left it.
C16_Witness ==
    /\ pc[1] = "idle"
    /\ calls = 2
    /\ kept[1] = 1
    /\ Len(committed[1]) = 2
    /\ profile[1] = committed[1][2]
    /\ ~lock[1]

\* C17: a record no fold has touched (samples = 0, no fold inside its critical
\* section) has every statistic zero; the first sample folded is both the min
\* pair and the max pair, whatever its cycles (> 0) and bytes (>= 0); and a
\* later sample whose ratio ties with the stored min pair (its cross products
\* are equal) replaces that pair, and likewise for the max pair.
C17_FirstSampleAndTies ==
    /\ [](\A p \in Probes :
            InCritical(p) = {} =>
               /\ profile[p].samples = 0 => profile[p] = NewProfile(p)
               /\ profile[p].samples = 1 =>
                    /\ folded[p] = {<<profile[p].cycles_min, profile[p].bytes_min>>}
                    /\ folded[p] = {<<profile[p].cycles_max, profile[p].bytes_max>>})
    /\ [][\A t \in Threads :
            LET p == th[t].profiler IN
            /\ (pc[t] = "fold_min" /\ pc'[t] = "fold_max"
                  /\ th[t].t * profile[p].bytes_min = profile[p].cycles_min * th[t].bytes)
                 => (profile'[p].cycles_min = th[t].t
                       /\ profile'[p].bytes_min = th[t].bytes)
            /\ (pc[t] = "fold_max" /\ pc'[t] = "fold_avg"
                  /\ th[t].t * profile[p].bytes_max = profile[p].cycles_max * th[t].bytes)
                 => (profile'[p].cycles_max = th[t].t
                       /\ profile'[p].bytes_max = th[t].bytes)]_vars

\* The first sample, of 1 cycle and 1 byte, became both pairs, and the second,
\* of 2 cycles and 2 bytes, tied with both and has replaced both.
C17_Witness ==
    /\ pc[1] = "idle"
    /\ Len(committed[1]) = 3
    /\ committed[1][2].cycles_min = 1 /\ committed[1][2].bytes_min = 1
    /\ committed[1][2].cycles_max = 1 /\ committed[1][2].bytes_max = 1
    /\ profile[1].cycles_min = 2 /\ profile[1].bytes_min = 2
    /\ profile[1].cycles_max = 2 /\ profile[1].bytes_max = 2

\* C18: a visit never uses a slot that holds no reference: the profiler it
\* locks and copies is the one that stands in the slot the iterator is at, a
\* slot below the count it loaded.  A slot is passed over only when it is null,
\* and then nothing is handed to the consumer; a slot that is filled when the
\* iterator reads it is visited; the visit ends only after the last slot below
\* the count; and so the slots that were filled when the count was loaded are
\* each visited once, also when a slot below the count is still null.
C18_NullSlotsAreSkipped ==
    /\ [](\A t \in Threads :
            /\ pc[t] \in {"visit_spin", "visit_read", "visit_release"} =>
                 /\ th[t].k < th[t].n
                 /\ th[t].k \in DOMAIN PROFILERS
                 /\ th[t].profiler = PROFILERS[th[t].k]
            /\ pc[t] \in VisitPcs =>
                 /\ \A j \in 1..Len(Visited(t)) : Occurrences(Visited(t), Visited(t)[j]) = 1
                 /\ \A i \in th[t].atStart :
                      i < th[t].k => Occurrences(Visited(t), PROFILERS[i]) = 1)
    /\ [][\A t \in Threads :
            /\ (pc[t] = "visit_next" /\ pc'[t] = "visit_next" /\ th'[t].k # th[t].k)
                 => /\ th[t].k \notin DOMAIN PROFILERS
                    /\ th'[t].k = th[t].k + 1
                    /\ th'[t].out = th[t].out
            /\ (pc[t] = "visit_next" /\ th'[t] # th[t] /\ th[t].k < th[t].n
                  /\ th[t].k \in DOMAIN PROFILERS)
                 => (pc'[t] = "visit_spin" /\ th'[t].profiler = PROFILERS[th[t].k])
            /\ (pc[t] = "visit_next" /\ pc'[t] = "idle") => th[t].k >= th[t].n]_vars

\* A visit loaded COUNTER = 2 while the first slot was still null, the thread
\* that took index 0 not having stored its reference; it has passed over that
\* slot, copied the record of the profiler in the second slot, and is at its end.
C18_Witness ==
    \E t1, t2 \in Threads :
        /\ VisitDone(t1)
        /\ th[t1].n = 2
        /\ th[t1].atStart = {1}
        /\ Len(th[t1].out) = 1
        /\ th[t1].out[1].name = PROFILERS[1]
        /\ pc[t2] = "store"
        /\ th[t2].ix = 0

\* profile has been called on profiler p: the call took or found taken its latch
Fired(p) == ~init[p]

\* C19: a visit that begins when every call of profile has returned and every
\* guard is dropped hands its consumer, by its end, exactly one snapshot of
\* every profiler that was ever fired and none of any other, and the samples
\* of each snapshot is the number of that profiler's drops with end > start.
C19_ReportAtQuiescenceIsComplete ==
    \A t \in Threads :
        VisitDone(t) =>
            /\ \A p \in Probes :
                 Occurrences(Visited(t), p) = IF Fired(p) THEN 1 ELSE 0
            /\ \A j \in 1..Len(th[t].out) :
                 th[t].out[j].samples = kept[th[t].out[j].name]
            /\ Len(th[t].out) = th[t].n

\* Two profilers were fired, the guard of one dropped with end > start and the
\* guard of the other with end <= start; the visit that began after that is at
\* its end with a snapshot of each, one of one sample and one of none.
C19_Witness ==
    \E t \in Threads :
        /\ VisitDone(t)
        /\ Len(th[t].out) = 2
        /\ \E i, j \in 1..2 : th[t].out[i].samples = 1 /\ th[t].out[j].samples = 0
        /\ \A p \in Probes : Fired(p)

\* C20: in every fold the value cycles_avg * samples + cycles that the average
\* update computes is at most the exact sum of the cycles folded so far plus
\* the new sample's, and likewise for the bytes, so that it fits the word
\* whenever that sum does; the update leaves the new average times the new
\* count at most that sum again; and the lock is held inside the fold and
\* free after it.
C20_AvgUpdateBoundedBySum ==
    \A t \in Threads :
        LET p == th[t].profiler IN
        /\ pc[t] = "fold_avg" =>
             /\ profile[p].cycles_avg * profile[p].samples + th[t].t
                    <= sums[p].cycles + th[t].t
             /\ profile[p].bytes_avg * profile[p].samples + th[t].bytes
                    <= sums[p].bytes + th[t].bytes
        /\ pc[t] = "fold_count" =>
             /\ profile[p].cycles_avg * (th[t].n0 + 1) <= sums[p].cycles + th[t].t
             /\ profile[p].bytes_avg * (th[t].n0 + 1) <= sums[p].bytes + th[t].bytes
        /\ pc[t] \in {"fold_min", "fold_max", "fold_avg", "fold_count", "release"}
             => lock[p]
        /\ pc[t] = "idle" => \A q \in Probes : InCritical(q) = {} => ~lock[q]

\* The third fold is about to update the averages of a record whose average of
\* the cycles, times its two samples, is below the sum of their cycles.
C20_Witness ==
    /\ pc[1] = "fold_avg"
    /\ profile[1].samples = 2
    /\ profile[1].cycles_avg * 2 < sums[1].cycles
    /\ profile[1].bytes_avg * 2 < sums[1].bytes
    /\ lock[1]

====
